---------------------------- MODULE Spec2Model ----------------------------
(***************************************************************************)
(* A model of my_color_lib: the bounded-angle types (src/channel/angle.rs, *)
(* src/util.rs), the colour representations and their conversions          *)
(* (src/color.rs, src/color/linrgb.rs) and the shade categorisation.       *)
(*                                                                         *)
(* The library computes in IEEE-754 binary32 (f32).  Rounding decides      *)
(* several of the properties checked here, so an f32 is modelled bit for   *)
(* bit: a finite value is the pair <<m, e>> that stands for m * 2^e, with  *)
(* m = 0 (zero; the sign of a zero is not kept) or 2^23 <= |m| < 2^24.     *)
(* Every operation rounds to nearest, ties to even, as the hardware does.  *)
(* Exponent overflow and subnormals do not occur for the bounded inputs    *)
(* used here and are modelled in powf only.  NaN and the infinities are    *)
(* the three pairs below with exponent SpecialExp.                         *)
(***************************************************************************)
EXTENDS Integers, Sequences, FiniteSets, TLC

VARIABLES
    mode,     \* the part of the library a behaviour exercises
    ang,      \* the angle value: [ty, i, f], payload i (integer types) or f (f32)
    angSt,    \* "ok", or "panic" once an operation on the angle has panicked
    angLast,  \* the last operation on the angle: [op, pre, rhs, rev]
    angN,     \* the number of operations applied to the angle
    colOrig,  \* the constructor call a colour came from: [ctor, args]
    col,      \* the colour value: [rep, c], or Panicked
    colPath,  \* the methods called on the colour since, in order
    shd       \* what shades() returned: [st, list], list = <<<<BaseColor, weight>>, ...>>

angVars == <<ang, angSt, angLast, angN>>
colVars == <<colOrig, col, colPath, shd>>
vars == <<mode, ang, angSt, angLast, angN, colOrig, col, colPath, shd>>

----------------------------------------------------------------------------
(* binary32 arithmetic *)

SpecialExp == 999
NaN == <<0, SpecialExp>>
PosInf == <<1, SpecialExp>>
NegInf == <<-1, SpecialExp>>
Zero == <<0, 0>>

Two23 == 8388608
Two24 == 16777216

IsNaN(a) == a = NaN
IsInf(a) == a = PosInf \/ a = NegInf
IsFinite(a) == a[2] # SpecialExp

Abs(n) == IF n < 0 THEN -n ELSE n
Sgn(n) == IF n < 0 THEN -1 ELSE IF n > 0 THEN 1 ELSE 0

(* the number of bits of n, 0 <= n < 2^31 *)
BitLen(n) == Cardinality({k \in 0..30 : 2^k <= n})

(* The f32 nearest to sg * (n + t) * 2^e, where n >= 0 is an integer and   *)
(* the sticky flag st says that 0 < t < 1 was cut off below n (st = FALSE: *)
(* t = 0).  With st set, n must carry at least 25 bits.                    *)
(* RoundCarry: the mantissa q after rounding, which may have reached 2^24. *)
(* RoundCut: n = q * 2^k + r was cut to 24 bits q; half = 2^(k-1).         *)
(* RoundLen: n has len bits.                                               *)
RoundCarry(sg, q, e) == IF q = Two24 THEN <<sg * Two23, e + 1>> ELSE <<sg * q, e>>
RoundCut(sg, q, r, half, e, st) ==
    RoundCarry(sg, IF r > half \/ (r = half /\ (st \/ q % 2 = 1)) THEN q + 1 ELSE q, e)
RoundLen(sg, n, e, st, len) ==
    IF len <= 24 THEN <<sg * n * 2^(24 - len), e - (24 - len)>>
    ELSE RoundCut(sg, n \div 2^(len - 24), n % 2^(len - 24), 2^(len - 25), e + len - 24, st)
RoundF(sg, n, e, st) == IF n = 0 THEN Zero ELSE RoundLen(sg, n, e, st, BitLen(n))

(* the f32 nearest to n * 2^e for an integer n *)
RoundSigned(n, e) == RoundF(Sgn(n), Abs(n), e, FALSE)

(* i as f32 (exact for |i| < 2^24) *)
FromInt(i) == RoundSigned(i, 0)

Neg(a) == IF IsNaN(a) THEN NaN ELSE <<-a[1], a[2]>>
FAbs(a) == IF IsNaN(a) THEN NaN ELSE <<Abs(a[1]), a[2]>>

(* a + b for finite non-zero a, b with d = a[2] - b[2] >= 0.  Beyond 6     *)
(* bits of shift the low bits of b are folded into a sticky flag:          *)
(* AddSticky rounds sg * (big + small) or sg * (big - small), where st     *)
(* says that bits of small were cut off.                                   *)
AddSticky(sg, big, small, st, same, e) ==
    RoundF(sg, IF same THEN big + small ELSE big - small - (IF st THEN 1 ELSE 0), e, st)
AddOrdered(a, b, d) ==
    IF d >= 26 THEN a
    ELSE IF d <= 6 THEN RoundSigned(a[1] * 2^d + b[1], b[2])
    ELSE AddSticky(Sgn(a[1]), Abs(a[1]) * 64, Abs(b[1]) \div 2^(d - 6),
                   Abs(b[1]) % 2^(d - 6) # 0, Sgn(a[1]) = Sgn(b[1]), b[2] + d - 6)

Add(a, b) ==
    IF IsNaN(a) \/ IsNaN(b) THEN NaN
    ELSE IF IsInf(a) THEN (IF IsInf(b) /\ b # a THEN NaN ELSE a)
    ELSE IF IsInf(b) THEN b
    ELSE IF a[1] = 0 THEN b
    ELSE IF b[1] = 0 THEN a
    ELSE AddOrdered(IF a[2] >= b[2] THEN a ELSE b, IF a[2] >= b[2] THEN b ELSE a,
                    Abs(a[2] - b[2]))

Sub(a, b) == Add(a, Neg(b))

(* the 48-bit product of x, y < 2^24 as <<high 24 bits, low 24 bits>>,     *)
(* from the products of their 12-bit halves                                *)
Mul48Low(h, low) == <<h + low \div Two24, low % Two24>>
Mul48Sum(hh, mid, ll) == Mul48Low(hh + mid \div 4096, ll + (mid % 4096) * 4096)
Mul48(x, y) ==
    Mul48Sum((x \div 4096) * (y \div 4096),
             (x \div 4096) * (y % 4096) + (x % 4096) * (y \div 4096),
             (x % 4096) * (y % 4096))

(* a * b.  The product of the mantissas is pr[1] * 2^24 + pr[2], with      *)
(* 2^22 <= pr[1] < 2^24.                                                   *)
MulRound(sg, pr, e) ==
    RoundF(sg, pr[1] * 64 + pr[2] \div 262144, e, pr[2] % 262144 # 0)
Mul(a, b) ==
    IF IsNaN(a) \/ IsNaN(b) THEN NaN
    ELSE IF IsInf(a) \/ IsInf(b)
         THEN (IF a[1] = 0 \/ b[1] = 0 THEN NaN
               ELSE IF Sgn(a[1]) = Sgn(b[1]) THEN PosInf ELSE NegInf)
    ELSE IF a[1] = 0 \/ b[1] = 0 THEN Zero
    ELSE MulRound(Sgn(a[1]) * Sgn(b[1]), Mul48(Abs(a[1]), Abs(b[1])), a[2] + b[2] + 18)

(* floor(r * 2^(7*k) / y) and the remainder, for 0 <= r < y < 2^24 *)
RECURSIVE LongDiv(_, _, _, _)
LongDiv(q, r, y, k) ==
    IF k = 0 THEN <<q, r>>
    ELSE LongDiv(q * 128 + (r * 128) \div y, (r * 128) % y, y, k - 1)

(* a / b *)
DivRound(sg, qr, e) == RoundF(sg, qr[1], e, qr[2] # 0)
DivAbs(sg, x, y, e) == DivRound(sg, LongDiv(x \div y, x % y, y, 4), e)
Div(a, b) ==
    IF IsNaN(a) \/ IsNaN(b) THEN NaN
    ELSE IF IsInf(a)
         THEN (IF IsInf(b) THEN NaN
               ELSE IF Sgn(a[1]) * (IF b[1] < 0 THEN -1 ELSE 1) > 0 THEN PosInf
               ELSE NegInf)
    ELSE IF IsInf(b) THEN Zero
    ELSE IF b[1] = 0
         THEN (IF a[1] = 0 THEN NaN ELSE IF a[1] > 0 THEN PosInf ELSE NegInf)
    ELSE IF a[1] = 0 THEN Zero
    ELSE DivAbs(Sgn(a[1]) * Sgn(b[1]), Abs(a[1]), Abs(b[1]), a[2] - b[2] - 28)

(* the f32 nearest to the decimal n / d, as rustc reads a literal *)
Lit(n, d) == Div(FromInt(n), FromInt(d))

(* (r * 2^d) mod y for 0 <= r < y < 2^24, seven bits of the shift at a time *)
RECURSIVE ShiftMod(_, _, _)
ShiftMod(r, y, d) ==
    IF d = 0 \/ r = 0 THEN r
    ELSE IF d >= 7 THEN ShiftMod((128 * r) % y, y, d - 7)
    ELSE ShiftMod((2 * r) % y, y, d - 1)

(* a % b: the remainder of the truncating division, exact, signed like a *)
Rem(a, b) ==
    IF IsNaN(a) \/ IsNaN(b) \/ IsInf(a) THEN NaN
    ELSE IF IsInf(b) THEN a
    ELSE IF b[1] = 0 THEN NaN
    ELSE IF a[1] = 0 THEN Zero
    ELSE IF a[2] < b[2] THEN a
    ELSE RoundF(Sgn(a[1]), ShiftMod(Abs(a[1]) % Abs(b[1]), Abs(b[1]), a[2] - b[2]),
                b[2], FALSE)

(* a < b, a <= b, a = b as f32 compares them: all false on NaN *)
Lt(a, b) ==
    IF IsNaN(a) \/ IsNaN(b) THEN FALSE
    ELSE IF a = b THEN FALSE
    ELSE IF a = NegInf \/ b = PosInf THEN TRUE
    ELSE IF a = PosInf \/ b = NegInf THEN FALSE
    ELSE Sub(a, b)[1] < 0
Feq(a, b) == ~IsNaN(a) /\ ~IsNaN(b) /\ a = b
Le(a, b) == Lt(a, b) \/ Feq(a, b)
Gt(a, b) == Lt(b, a)
Ge(a, b) == Le(b, a)

(* f32::max and f32::min: the other operand when one is NaN *)
FMax(a, b) == IF IsNaN(a) THEN b ELSE IF IsNaN(b) THEN a ELSE IF Lt(a, b) THEN b ELSE a
FMin(a, b) == IF IsNaN(a) THEN b ELSE IF IsNaN(b) THEN a ELSE IF Lt(b, a) THEN b ELSE a

(* `x as u8`: truncates toward zero and saturates; NaN gives 0 *)
ToU8(a) ==
    IF IsNaN(a) THEN 0
    ELSE IF a = PosInf THEN 255
    ELSE IF a[1] <= 0 THEN 0
    ELSE IF a[2] >= -15 THEN 255
    ELSE IF a[2] <= -24 THEN 0
    ELSE a[1] \div 2^(-a[2])

One == FromInt(1)

(* f32::powf is the powf of the libm the build links.  libm computes x^y   *)
(* in higher precision and rounds once; the result is the f32 nearest to   *)
(* x^y except where x^y lies next to the midpoint of two f32, where a libm *)
(* returns either of the two (glibc errs by up to 0.502 ulp for the two    *)
(* exponents used here).  Powf is therefore the set of the results a libm  *)
(* can give: both neighbours when x^y lies within 1/128 ulp of their       *)
(* midpoint, the nearest f32 alone otherwise.  For an exponent y close to  *)
(* the rational p/q the f32 r is placed by comparing r^q with              *)
(*       x^(q*y) = x^p * exp((q*y - p) * ln x),                            *)
(* both sides carried to 48 bits.  A wide number <<hi, lo, e>> stands for  *)
(* (hi * 2^24 + lo) * 2^e with 2^23 <= hi < 2^24 and 0 <= lo < 2^24.       *)

WNorm1(h1, l1, e) ==
    IF h1 >= Two24 THEN <<h1 \div 2, (l1 + (h1 % 2) * Two24) \div 2, e + 1>>
    ELSE IF h1 < Two23 THEN <<h1 * 2 + l1 \div Two23, (l1 % Two23) * 2, e - 1>>
    ELSE <<h1, l1, e>>
WNorm(h, l, e) == WNorm1(h + l \div Two24, l % Two24, e)

WFromF(x) == <<x[1], 0, x[2] - 24>>

WMulSum(hh, cross, e) == WNorm(hh[1], hh[2] + cross, e)
WMul(a, b) ==
    WMulSum(Mul48(a[1], b[1]), Mul48(a[1], b[2])[1] + Mul48(a[2], b[1])[1],
            a[3] + b[3] + 48)
WSquare(a) == WMul(a, a)

RECURSIVE WPow(_, _)
WPow(a, k) ==
    IF k = 1 THEN a
    ELSE IF k % 2 = 0 THEN WSquare(WPow(a, k \div 2))
    ELSE WMul(a, WPow(a, k - 1))

WLe(a, b) ==
    \/ a[3] < b[3]
    \/ a[3] = b[3] /\ (a[1] < b[1] \/ (a[1] = b[1] /\ a[2] <= b[2]))

(* w * (1 + eps) for a small f32 eps: pr is the 48-bit product of the      *)
(* high word of w and |eps|, to be shifted right by 24 - s bits            *)
WScaleBy(w, pr, s, sg) ==
    WNorm(w[1] + sg * (IF s < 0 THEN 0 ELSE pr[1] \div 2^(24 - s)),
          w[2] + sg * (IF s < -24 THEN 0
                       ELSE IF s < 0 THEN pr[1] \div 2^(-s)
                       ELSE (pr[1] % 2^(24 - s)) * 2^s + pr[2] \div 2^(24 - s)),
          w[3])
WScale(w, eps) ==
    IF eps[1] = 0 THEN w
    ELSE WScaleBy(w, Mul48(w[1], Abs(eps[1])), 48 + eps[2], Sgn(eps[1]))

(* the f32 next above a positive f32 *)
Up(r) == IF r[1] = Two24 - 1 THEN <<Two23, r[2] + 1>> ELSE <<r[1] + 1, r[2]>>

(* The largest f32 r = <<m, e>> with r^q <= t, where e is the exponent of  *)
(* the q-th root of t: the bits of m from the highest down.                *)
RECURSIVE RootBits(_, _, _, _, _)
RootBits(m, bit, e, q, t) ==
    IF bit < 0 \/ m = 0 THEN <<m, e>>
    ELSE RootBits(IF WLe(WPow(<<m + 2^bit, 0, e - 24>>, q), t) THEN m + 2^bit ELSE m,
                  bit - 1, e, q, t)
FloorRoot(t, q) == RootBits(Two23, 22, ((t[3] + 47) \div q) - 23, q, t)

(* ln x for finite x > 0, in f32 arithmetic (to about 1e-6):               *)
(* ln(m * 2^e) = e ln 2 + 2 atanh z with z = (m - 1) / (m + 1), and        *)
(* atanh z = z (1 + z^2 (1/3 + z^2 (1/5 + ... + z^2 / 11)))                *)
LN2 == <<11629080, -24>>
RECURSIVE AtanhTail(_, _, _)
AtanhTail(z2, t, k) ==
    IF k < 3 \/ t[1] = 0 THEN t ELSE AtanhTail(z2, Mul(z2, Add(Lit(1, k), t)), k - 2)
LnSeries(z, z2, e) ==
    Add(Mul(FromInt(e), LN2),
        Mul(FromInt(2), Mul(z, Add(One, AtanhTail(z2, Div(z2, FromInt(11)), 9)))))
LnOf(z, e) == IF z[1] = 0 THEN Mul(FromInt(e), LN2) ELSE LnSeries(z, Mul(z, z), e)
Ln(x) == LnOf(Div(Sub(<<x[1], -23>>, One), Add(<<x[1], -23>>, One)), x[2] + 23)

(* exp(eps) - 1 for a small eps, to the second order *)
ExpM1(eps) == Add(eps, Mul(<<Two23, -24>>, Mul(eps, eps)))

(* x.powf(y), where p/q is a rational close to y.  PowfTarget is x^(q*y)   *)
(* as a wide number t, and r the largest f32 with r^q <= t.  PowfNear: the *)
(* nearer of r and the next f32, or both when t lies within 1/128 ulp of   *)
(* their midpoint.  PowfTiny: below 2^-126 the f32 are the multiples of    *)
(* 2^-149, s = -149 - r[2] bits of r are cut; PowfTinyNear: the nearer of  *)
(* n * 2^-149 and the next multiple, or both when t lies within the same   *)
(* distance (1/128 ulp of r) of their midpoint.  Above 2^128 the result    *)
(* overflows to infinity.                                                  *)
PowfTarget(x, y, p, q) ==
    WScale(WPow(WFromF(x), p),
           ExpM1(Mul(RoundSigned(q * y[1] - p * 2^(-y[2]), y[2]), Ln(x))))
PowfNear(r, q, t) ==
    IF ~WLe(WPow(<<r[1], Two23 - 2^17, r[2] - 24>>, q), t) THEN {r}
    ELSE IF WLe(WPow(<<r[1], Two23 + 2^17, r[2] - 24>>, q), t) THEN {Up(r)}
    ELSE {r, Up(r)}
PowfTinyNear(n, s, e, q, t) ==
    IF ~WLe(WPow(WNorm(n * 2^s + 2^(s - 1) - 1, Two24 - 2^17, e - 24), q), t)
    THEN {RoundSigned(n, -149)}
    ELSE IF WLe(WPow(WNorm(n * 2^s + 2^(s - 1), 2^17, e - 24), q), t)
    THEN {RoundSigned(n + 1, -149)}
    ELSE {RoundSigned(n, -149), RoundSigned(n + 1, -149)}
PowfTiny(r, s, q, t) ==
    IF s >= 26 THEN {Zero} ELSE PowfTinyNear(r[1] \div 2^s, s, r[2], q, t)
PowfOf(r, q, t) ==
    IF r[2] > 104 THEN {PosInf}
    ELSE IF r[2] < -149 THEN PowfTiny(r, -149 - r[2], q, t)
    ELSE PowfNear(r, q, t)
PowfFrom(t, q) == PowfOf(FloorRoot(t, q), q, t)

(* x.powf(y) for a finite y > 0 that is not an integer: NaN for a NaN and  *)
(* for a finite x < 0, +inf for both infinities, 0 for 0, 1 for 1          *)
Powf(x, y, p, q) ==
    IF IsNaN(x) THEN {NaN}
    ELSE IF IsInf(x) THEN {PosInf}
    ELSE IF x[1] < 0 THEN {NaN}
    ELSE IF x[1] = 0 THEN {Zero}
    ELSE IF x = One THEN {One}
    ELSE PowfFrom(PowfTarget(x, y, p, q), q)

----------------------------------------------------------------------------
(* machine integers *)

(* Rust's / and % truncate toward zero *)
TruncDiv(a, b) == Sgn(a) * Sgn(b) * (Abs(a) \div Abs(b))
TruncRem(a, b) == Sgn(a) * (Abs(a) % Abs(b))

I16Min == -32768
I16Max == 32767
(* The integer angles are Deg<i16> and Deg<i32>.  The i32 payloads used    *)
(* here stay far from the 32-bit limits, so only i16 can overflow.         *)
Fits(ty, n) == ty = "i32" \/ (I16Min <= n /\ n <= I16Max)
Wrap16(n) == ((n + 32768) % 65536) - 32768

(* The outcomes of `a op b` on a machine integer: "ok" with the value, or  *)
(* "panic".  An overflow panics in a debug build and wraps in a release    *)
(* build; a division by zero, and MIN / -1, panic in both.                 *)
IntOp(ty, op, a, b) ==
    IF op \in {"div", "rem"}
    THEN IF b = 0 \/ (ty = "i16" /\ a = I16Min /\ b = -1)
         THEN {[st |-> "panic", i |-> a]}
         ELSE {[st |-> "ok", i |-> IF op = "div" THEN TruncDiv(a, b) ELSE TruncRem(a, b)]}
    ELSE LET n == CASE op = "add" -> a + b
                    [] op = "sub" -> a - b
                    [] op = "mul" -> a * b
         IN IF Fits(ty, n) THEN {[st |-> "ok", i |-> n]}
            ELSE {[st |-> "panic", i |-> a], [st |-> "ok", i |-> Wrap16(n)]}

FloatOp(op, a, b) ==
    CASE op = "add" -> Add(a, b)
      [] op = "sub" -> Sub(a, b)
      [] op = "mul" -> Mul(a, b)
      [] op = "div" -> Div(a, b)
      [] op = "rem" -> Rem(a, b)

----------------------------------------------------------------------------
(* bounded angles: src/channel/angle.rs and Deg of src/util.rs *)

F360 == FromInt(360)
PI32 == <<13176795, -22>>
(* Rad::ch_max *)
RadMax == Mul(PI32, FromInt(2))

IntTypes == {"i16", "i32"}
AngleFloatTypes == {"f32", "rad"}
AngleTypes == IntTypes \cup AngleFloatTypes
(* "udeg" is util::Deg *)
AllAngleTypes == AngleTypes \cup {"udeg"}
ArithOps == {"add", "sub", "mul", "div", "rem"}
AssignOps == {"add_assign", "sub_assign", "mul_assign", "div_assign", "rem_assign"}
BaseOp(op) ==
    CASE op = "add_assign" -> "add"
      [] op = "sub_assign" -> "sub"
      [] op = "mul_assign" -> "mul"
      [] op = "div_assign" -> "div"
      [] op = "rem_assign" -> "rem"

(* <Deg<f32> as Channel>::to_range *)
DegF32_to_range(x) ==
    LET a == Rem(x, F360)
    IN IF Lt(a, Zero) THEN Add(a, F360) ELSE a

(* <Deg<i16> as Channel>::to_range, <Deg<i32> as Channel>::to_range *)
DegInt_to_range(n) ==
    LET a == TruncRem(n, 360)
    IN IF a < 0 THEN a + 360 ELSE a

(* <Rad as Channel>::to_range *)
Rad_to_range(x) ==
    LET a == Rem(x, RadMax)
    IN IF Lt(a, Zero) THEN Add(a, RadMax) ELSE a

Float_to_range(ty, x) == IF ty = "rad" THEN Rad_to_range(x) ELSE DegF32_to_range(x)

(* util::Deg::new: the outcome is "panic", or "ok" with the payload *)
Deg_new(degrees) ==
    IF ~IsFinite(degrees) THEN [st |-> "panic", f |-> degrees]
    ELSE LET d == Rem(degrees, F360)
         IN [st |-> "ok", f |-> IF Lt(d, Zero) THEN Add(d, F360) ELSE d]

(* util::Deg::inv *)
Deg_inv(x) == Sub(F360, x)

----------------------------------------------------------------------------
(* colours: src/color.rs, src/color/linrgb.rs, src/util.rs *)

F255 == FromInt(255)
F60 == FromInt(60)

(* GAMMA, and the exponent 1.0/GAMMA of gamma_encode *)
GAMMA == Lit(24, 10)
InvGamma == Div(One, GAMMA)

(* gamma_encode and gamma_decode of color.rs: the results powf can give *)
gamma_encode(linear) == Powf(linear, InvGamma, 5, 12)
gamma_decode(encoded) == Powf(encoded, GAMMA, 12, 5)

(* util::std_gamma_encode; the closure `encode` of LinRGBColor::srgb *)
std_gamma_encode(linear) ==
    IF Le(linear, Lit(31308, 10000000)) THEN {Mul(linear, Lit(1292, 100))}
    ELSE {Sub(Mul(g, Lit(1055, 1000)), Lit(55, 1000)) : g \in gamma_encode(linear)}

(* util::std_gamma_decode; the closure `decode` of SRGBColor::lin_rgb *)
std_gamma_decode(encoded) ==
    IF Le(encoded, Lit(4045, 100000)) THEN {Div(encoded, Lit(1292, 100))}
    ELSE gamma_decode(Div(Add(encoded, Lit(55, 1000)), Lit(1055, 1000)))

(* util::clamp on f32: max when value is not below max (or cannot be       *)
(* compared), else value when it is above min, else min                    *)
clamp(value, min, max) ==
    IF Lt(value, max) THEN (IF Gt(value, min) THEN value ELSE min)
    ELSE max

(* A colour value is [rep, c]: the representation and its channels, a      *)
(* triple of bytes (srgb24, lin24), of f32 (srgb, lin, linc, hsv), or the  *)
(* name of a BaseColor.  "lin" is LinRGBColor of color.rs, "linc" the one  *)
(* of color/linrgb.rs.  Panicked is what a call that panics leaves.        *)
Col(rep, c) == [rep |-> rep, c |-> c]
Panicked == [rep |-> "panic", c |-> <<>>]
Map3(F(_), c) == <<F(c[1]), F(c[2]), F(c[3])>>
(* the triples a channel function with several possible results can give *)
Map3Set(F(_), c) == {<<r, g, b>> : r \in F(c[1]), g \in F(c[2]), b \in F(c[3])}

BaseColors == {"Black", "Grey", "White", "Red", "Yellow", "Green", "Cyan", "Blue", "Magenta"}

(* HSVColor::new *)
WrapHue(h) == IF Lt(h, Zero) THEN Add(h, F360) ELSE h
HSVColor_new(h, s, v) ==
    IF Lt(s, Zero) \/ Gt(s, One) THEN Panicked
    ELSE IF Lt(v, Zero) \/ Gt(v, One) THEN Panicked
    ELSE Col("hsv", <<WrapHue(Rem(h, F360)), s, v>>)

(* LinRGBColor::new of color.rs *)
LinRGBColor_new(r, g, b) == Col("lin", <<r, g, b>>)

(* LinRGBColor::new of color/linrgb.rs *)
LinRGBColor_new_clamped(r, g, b) ==
    Col("linc", <<clamp(r, Zero, One), clamp(g, Zero, One), clamp(b, Zero, One)>>)

(* <BaseColor as Color>::srgb24 *)
BaseColor_srgb24(name) ==
    Col("srgb24",
        CASE name = "Black" -> <<0, 0, 0>>
          [] name = "Grey" -> <<128, 128, 128>>
          [] name = "White" -> <<255, 255, 255>>
          [] name = "Red" -> <<255, 0, 0>>
          [] name = "Yellow" -> <<255, 255, 0>>
          [] name = "Green" -> <<0, 255, 0>>
          [] name = "Cyan" -> <<0, 255, 255>>
          [] name = "Blue" -> <<0, 0, 255>>
          [] name = "Magenta" -> <<255, 0, 255>>)

(* <BaseColor as Color>::hsv *)
BaseColor_hsv(name) ==
    CASE name = "Black" -> HSVColor_new(Zero, Zero, Zero)
      [] name = "Grey" -> HSVColor_new(Zero, Zero, Lit(5, 10))
      [] name = "White" -> HSVColor_new(Zero, Zero, One)
      [] name = "Red" -> HSVColor_new(Zero, One, One)
      [] name = "Yellow" -> HSVColor_new(FromInt(60), One, One)
      [] name = "Green" -> HSVColor_new(FromInt(120), One, One)
      [] name = "Cyan" -> HSVColor_new(FromInt(180), One, One)
      [] name = "Blue" -> HSVColor_new(FromInt(240), One, One)
      [] name = "Magenta" -> HSVColor_new(FromInt(300), One, One)

(* <SRGB24Color as Color>::srgb *)
Dequantize(k) == Div(FromInt(k), F255)
SRGB24Color_srgb(c) == Col("srgb", Map3(Dequantize, c))

(* <SRGBColor as Color>::srgb24 *)
Quantize(x) == ToU8(Mul(F255, x))
SRGBColor_srgb24(c) == Col("srgb24", Map3(Quantize, c))

(* <SRGBColor as Color>::lin_rgb *)
SRGBColor_lin_rgb(c) == {Col("lin", t) : t \in Map3Set(std_gamma_decode, c)}

(* <SRGBColor as Color>::hsv *)
HueSextant(r, g, b, max, delta) ==
    IF Feq(delta, Zero) THEN Zero
    ELSE IF Feq(max, r) THEN Rem(Div(Sub(g, b), delta), FromInt(6))
    ELSE IF Feq(max, g) THEN Add(Div(Sub(b, r), delta), FromInt(2))
    ELSE Add(Div(Sub(r, g), delta), FromInt(4))
HsvOfDelta(r, g, b, max, delta) ==
    HSVColor_new(Mul(F60, HueSextant(r, g, b, max, delta)),
                 IF Feq(max, Zero) THEN Zero ELSE Div(delta, max),
                 max)
HsvOfRange(r, g, b, max, min) == HsvOfDelta(r, g, b, max, Sub(max, min))
SRGBColor_hsv(c) ==
    HsvOfRange(c[1], c[2], c[3], FMax(FMax(c[1], c[2]), c[3]), FMin(FMin(c[1], c[2]), c[3]))

(* <LinRGBColor as Color>::srgb of color.rs *)
LinRGBColor_srgb(c) == {Col("srgb", t) : t \in Map3Set(std_gamma_encode, c)}

(* <LinRGBColor as Color>::lin_rgb24 *)
QuantizeLin(x) == ToU8(Mul(x, F255))
LinRGBColor_lin_rgb24(c) == Col("lin24", Map3(QuantizeLin, c))

(* <LinRGB24Color as Color>::lin_rgb *)
LinRGB24Color_lin_rgb(c) == LinRGBColor_new(Dequantize(c[1]), Dequantize(c[2]), Dequantize(c[3]))

(* <HSVColor as Color>::srgb *)
Plus(rgb, min) == Col("srgb", <<Add(rgb[1], min), Add(rgb[2], min), Add(rgb[3], min)>>)
(* the sector table without the arm for sector 6 *)
RgbOfSectorBelow6(sector, c, x, min) ==
    CASE sector = 0 -> Plus(<<c, x, Zero>>, min)
      [] sector = 1 -> Plus(<<x, c, Zero>>, min)
      [] sector = 2 -> Plus(<<Zero, c, x>>, min)
      [] sector = 3 -> Plus(<<Zero, x, c>>, min)
      [] sector = 4 -> Plus(<<x, Zero, c>>, min)
      [] sector = 5 -> Plus(<<c, Zero, x>>, min)
      [] OTHER -> Panicked
RgbOfSector(sector, c, x, min) ==
    CASE sector = 0 -> Plus(<<c, x, Zero>>, min)
      [] sector = 1 -> Plus(<<x, c, Zero>>, min)
      [] sector = 2 -> Plus(<<Zero, c, x>>, min)
      [] sector = 3 -> Plus(<<Zero, x, c>>, min)
      [] sector = 4 -> Plus(<<x, Zero, c>>, min)
      [] sector \in {5, 6} -> Plus(<<c, Zero, x>>, min)
      [] OTHER -> Panicked
RgbOfChroma(h, v, c) ==
    RgbOfSector(ToU8(h), c, Mul(c, Sub(One, FAbs(Sub(Rem(h, FromInt(2)), One)))), Sub(v, c))
HSVColor_srgb(hsv) == RgbOfChroma(Div(hsv[1], F60), hsv[3], Mul(hsv[2], hsv[3]))

(* `x as u16`: truncates toward zero and saturates; NaN gives 0 *)
ToU16(a) ==
    IF IsNaN(a) THEN 0
    ELSE IF a = PosInf THEN 65535
    ELSE IF a[1] <= 0 THEN 0
    ELSE IF a[2] >= -7 THEN 65535
    ELSE IF a[2] <= -24 THEN 0
    ELSE a[1] \div 2^(-a[2])

(* <LinRGBColor as Color>::srgb of color/linrgb.rs: gamma_encode on every  *)
(* channel, without the linear segment                                     *)
linrgb_LinRGBColor_srgb(c) == {Col("srgb", t) : t \in Map3Set(gamma_encode, c)}

(* <LinRGBColor as Color>::lin_rgb48 of color/linrgb.rs *)
F65535 == FromInt(65535)
Quantize16(x) == ToU16(Mul(x, F65535))
LinRGBColor_lin_rgb48(c) == Col("lin48", Map3(Quantize16, c))

(* <LinRGB48Color as Color>::lin_rgb *)
LinRGB48Color_lin_rgb(c) ==
    LinRGBColor_new_clamped(Div(FromInt(c[1]), F65535), Div(FromInt(c[2]), F65535),
                            Div(FromInt(c[3]), F65535))

(* <LinRGB48Color as Color>::srgb: self.lin_rgb().srgb() *)
LinRGB48Color_srgb(c) == linrgb_LinRGBColor_srgb(LinRGB48Color_lin_rgb(c).c)

(* The methods of trait Color on a colour value: the implementation's own  *)
(* method where it overrides, else the trait's default through srgb().     *)
(* Each is the set of the values the call can return: one value, or        *)
(* several where powf has several possible results.                        *)
srgb(x) ==
    CASE x.rep = "base" -> {SRGB24Color_srgb(BaseColor_srgb24(x.c).c)}
      [] x.rep = "srgb" -> {x}
      [] x.rep = "srgb24" -> {SRGB24Color_srgb(x.c)}
      [] x.rep \in {"lin", "lin24"} ->
            LinRGBColor_srgb((IF x.rep = "lin" THEN x ELSE LinRGB24Color_lin_rgb(x.c)).c)
      [] x.rep = "hsv" -> {HSVColor_srgb(x.c)}
      [] x.rep = "linc" -> linrgb_LinRGBColor_srgb(x.c)
      [] x.rep = "lin48" -> LinRGB48Color_srgb(x.c)
      [] OTHER -> {Panicked}

srgb24(x) ==
    CASE x.rep = "base" -> {BaseColor_srgb24(x.c)}
      [] x.rep = "srgb24" -> {x}
      [] x.rep = "panic" -> {Panicked}
      [] OTHER -> {IF y.rep = "panic" THEN Panicked ELSE SRGBColor_srgb24(y.c) : y \in srgb(x)}

lin_rgb(x) ==
    CASE x.rep \in {"lin", "linc"} -> {x}
      [] x.rep = "lin24" -> {LinRGB24Color_lin_rgb(x.c)}
      [] x.rep = "lin48" -> {LinRGB48Color_lin_rgb(x.c)}
      [] x.rep = "panic" -> {Panicked}
      [] OTHER -> UNION {IF y.rep = "panic" THEN {Panicked} ELSE SRGBColor_lin_rgb(y.c) :
                            y \in srgb(x)}

lin_rgb24(x) ==
    CASE x.rep = "lin24" -> {x}
      [] x.rep = "panic" -> {Panicked}
      [] OTHER -> {IF y.rep = "panic" THEN Panicked ELSE LinRGBColor_lin_rgb24(y.c) :
                      y \in lin_rgb(x)}

hsv(x) ==
    CASE x.rep = "base" -> {BaseColor_hsv(x.c)}
      [] x.rep = "hsv" -> {x}
      [] x.rep = "panic" -> {Panicked}
      [] OTHER -> {IF y.rep = "panic" THEN Panicked ELSE SRGBColor_hsv(y.c) : y \in srgb(x)}

(* lin_rgb48, which color/linrgb.rs gives its two types *)
lin_rgb48(x) ==
    CASE x.rep = "linc" -> {LinRGBColor_lin_rgb48(x.c)}
      [] x.rep = "lin48" -> {x}

Methods == {"srgb", "srgb24", "lin_rgb", "lin_rgb24", "hsv"}
Call(m, x) ==
    CASE m = "srgb" -> srgb(x)
      [] m = "srgb24" -> srgb24(x)
      [] m = "lin_rgb" -> lin_rgb(x)
      [] m = "lin_rgb24" -> lin_rgb24(x)
      [] m = "hsv" -> hsv(x)
      [] m = "lin_rgb48" -> lin_rgb48(x)

(* Color::relative_luminance *)
Luminance(c) ==
    Add(Add(Mul(Lit(2126, 10000), c[1]), Mul(Lit(7152, 10000), c[2])),
        Mul(Lit(722, 10000), c[3]))
(* relative_luminance() begins with self.lin_rgb(): when that call panics  *)
(* so does relative_luminance, and there is no value; LumPanicked stands   *)
(* for that outcome.                                                       *)
LumPanicked == <<>>
relative_luminance(x) ==
    {IF y.rep = "panic" THEN LumPanicked ELSE Luminance(y.c) : y \in lin_rgb(x)}

(* the constants of Color::shades *)
HUE_MARGIN == Mul(F60, Lit(75, 100))
BLACK_CUTOFF_LUMINANCE == Lit(5, 1000)
GREYSCALE_SATURATION == Lit(5, 100)
WHITE_SATURATION == Lit(35, 100)
WHITE_LUMINANCE == Lit(40, 100)
GREY_SATURATION == Lit(45, 100)
GREY_LUMINANCE_MAX == Lit(80, 100)
GREY_LUMINANCE_MIN == Lit(3, 100)
BLACK_LUMINANCE == Lit(45, 1000)
COLOR_HUES ==
    <<<<60, "Yellow">>, <<120, "Green">>, <<180, "Cyan">>, <<240, "Blue">>, <<300, "Magenta">>>>

(* Color::shades, the early return: `lum < BLACK_CUTOFF_LUMINANCE` *)
IsNearBlack(lum) == Lt(lum, BLACK_CUTOFF_LUMINANCE)

(* Color::shades, "red is a special case": the division binds to the       *)
(* whole if-expression, so the amount is 1 - h/45 up to 45 degrees and     *)
(* 1 - (h - 360)/45 from 315 degrees                                       *)
Shade(color, amount) == <<<<color, amount>>>>
RedShade(h) ==
    IF Ge(h, Sub(F360, HUE_MARGIN)) \/ Le(h, Add(Zero, HUE_MARGIN))
    THEN Shade("Red", Sub(One, Div(IF Le(h, Add(Zero, HUE_MARGIN)) THEN h ELSE Sub(h, F360),
                                   HUE_MARGIN)))
    ELSE <<>>

(* Color::shades, the loop over COLOR_HUES *)
ShadeAt(dist, color) ==
    IF Le(dist, HUE_MARGIN) THEN Shade(color, Sub(One, Div(dist, HUE_MARGIN))) ELSE <<>>
RECURSIVE HueShades(_, _)
HueShades(h, k) ==
    IF k = 0 THEN <<>>
    ELSE HueShades(h, k - 1)
         \o ShadeAt(FAbs(Sub(h, FromInt(COLOR_HUES[k][1]))), COLOR_HUES[k][2])

(* Color::shades, the greyscale shades *)
LumShade(lum, s) ==
    IF Le(lum, BLACK_LUMINANCE) THEN Shade("Black", One)
    ELSE IF Ge(lum, WHITE_LUMINANCE) /\ Le(s, WHITE_SATURATION) THEN Shade("White", One)
    ELSE <<>>
GreyShade(lum, s) ==
    IF Le(s, GREY_SATURATION) /\ Le(lum, GREY_LUMINANCE_MAX) /\ Ge(lum, GREY_LUMINANCE_MIN)
    THEN Shade("Grey", One)
    ELSE <<>>

(* the vector `shades` before it is sorted, in the order of the pushes *)
Pushed(h, s, lum) ==
    (IF Gt(s, GREYSCALE_SATURATION) THEN RedShade(h) \o HueShades(h, 5) ELSE <<>>)
    \o LumShade(lum, s) \o GreyShade(lum, s)

(* `sum`: 0.0, then `sum += amount` at every push *)
RECURSIVE SumAmounts(_, _)
SumAmounts(list, k) ==
    IF k = 0 THEN Zero ELSE Add(SumAmounts(list, k - 1), list[k][2])

(* the orders of 1..n *)
Orders(n) == {p \in [1..n -> 1..n] : \A i, j \in 1..n : i # j => p[i] # p[j]}

(* shades.sort_unstable_by(descending amount): the sort is not stable, so  *)
(* it may leave equal amounts in any order                                 *)
SortedOrders(list) ==
    {p \in Orders(Len(list)) :
        \A i \in 1..(Len(list) - 1) : Ge(list[p[i]][2], list[p[i + 1]][2])}

(* the map that ends Color::shades: every amount divided by sum *)
Normalized(list, p, sum) ==
    [i \in 1..Len(list) |-> <<list[p[i]][1], Div(list[p[i]][2], sum)>>]

(* What a call of shades() can return.  partial_cmp(..).unwrap() in the    *)
(* comparison panics when it meets a NaN amount.                           *)
Returned(list) == [st |-> "ok", list |-> list]
ShadesPanic == [st |-> "panic", list |-> <<>>]
SortAndNormalize(list) ==
    IF Len(list) > 1 /\ \E i \in 1..Len(list) : IsNaN(list[i][2]) THEN {ShadesPanic}
    ELSE {Returned(Normalized(list, p, SumAmounts(list, Len(list)))) : p \in SortedOrders(list)}
ShadesOf(h, s, lum) ==
    IF IsNearBlack(lum) THEN {Returned(Shade("Black", One))}
    ELSE SortAndNormalize(Pushed(h, s, lum))
(* shades() calls self.hsv() first and self.relative_luminance() second,   *)
(* before it looks at the cutoff: a panic of either call is a panic of     *)
(* shades().                                                               *)
ShadesOfLum(y, lum) ==
    IF lum = LumPanicked THEN {ShadesPanic} ELSE ShadesOf(y.c[1], y.c[2], lum)
ShadesOfHsv(x, y) ==
    IF y.rep = "panic" THEN {ShadesPanic}
    ELSE UNION {ShadesOfLum(y, lum) : lum \in relative_luminance(x)}
shades(x) == UNION {ShadesOfHsv(x, y) : y \in hsv(x)}

----------------------------------------------------------------------------
(* the angle machine *)

(* A payload: i is read for the integer types, f for the f32 ones. *)
P(i, f) == [i |-> i, f |-> f]
NoP == P(0, Zero)

(* `a op b` of impl_deg_ops / impl_rad_ops: Self(a.0 op b.0).to_range().   *)
(* The set of outcomes [st, i, f].                                         *)
AngleOp(ty, op, a, b) ==
    IF ty \in IntTypes
    THEN {[st |-> o.st, i |-> IF o.st = "ok" THEN DegInt_to_range(o.i) ELSE o.i, f |-> Zero] :
             o \in IntOp(ty, op, a.i, b.i)}
    ELSE {[st |-> "ok", i |-> 0, f |-> Float_to_range(ty, FloatOp(op, a.f, b.f))]}

(* `a op= b` of impl_deg_ops / impl_rad_ops: (a.0).op_assign(b.0) *)
AngleOpAssign(ty, op, a, b) ==
    IF ty \in IntTypes
    THEN {[st |-> o.st, i |-> o.i, f |-> Zero] : o \in IntOp(ty, BaseOp(op), a.i, b.i)}
    ELSE {[st |-> "ok", i |-> 0, f |-> FloatOp(BaseOp(op), a.f, b.f)]}

(* wrapper_struct_impl_ops of util.rs: `Deg op f32` (or `Deg op Deg`), and *)
(* with rev `f32 op Deg`: the f32 operation, then Into, which is Deg::new  *)
UDegOp(op, a, b, rev) ==
    LET r == Deg_new(IF rev THEN FloatOp(op, b.f, a.f) ELSE FloatOp(op, a.f, b.f))
    IN {[st |-> r.st, i |-> 0, f |-> r.f]}

(* inputs *)
TinyNeg == <<-Two23, -53>>          \* -2^-30
IntInputs(ty) ==
    {-400, -1, 0, 20, 350, 725} \cup (IF ty = "i16" THEN {I16Max} ELSE {})
FloatInputs ==
    {Zero, FromInt(-30), FromInt(20), FromInt(350), Lit(7255, 10), TinyNeg, NaN, PosInf}
Inputs(ty) ==
    IF ty \in IntTypes THEN {P(n, Zero) : n \in IntInputs(ty)}
                       ELSE {P(0, x) : x \in FloatInputs}

(* how many operations a behaviour applies to one angle *)
MaxAngOps == 2

Last(op, pre, rhs, rev) == [op |-> op, pre |-> pre, rhs |-> rhs, rev |-> rev]

(* From<T> for Deg<T>, From<f32> for Rad, NumCast::from: Self(n).          *)
(* From<f32> for util::Deg: Deg::new(n).                                   *)
NoCol == [rep |-> "none", c |-> <<>>]
NoColOrig == [ctor |-> "none", args |-> <<>>]
NoShades == [st |-> "none", list |-> <<>>]
ColIdle == colOrig = NoColOrig /\ col = NoCol /\ colPath = <<>> /\ shd = NoShades

AngInit ==
    /\ mode = "angle"
    /\ ColIdle
    /\ angN = 0
    /\ \E ty \in AllAngleTypes : \E x \in Inputs(ty) :
         IF ty = "udeg"
         THEN LET r == Deg_new(x.f)
              IN /\ ang = [ty |-> ty, i |-> 0, f |-> r.f]
                 /\ angSt = r.st
                 /\ angLast = Last("new", x, NoP, FALSE)
         ELSE /\ ang = [ty |-> ty, i |-> x.i, f |-> x.f]
              /\ angSt = "ok"
              /\ angLast = Last("from", x, NoP, FALSE)

Payload(a) == P(a.i, a.f)
Live == mode = "angle" /\ angSt = "ok" /\ angN < MaxAngOps

Become(o, last) ==
    /\ ang' = [ty |-> ang.ty, i |-> o.i, f |-> o.f]
    /\ angSt' = o.st
    /\ angLast' = last
    /\ angN' = angN + 1
    /\ UNCHANGED <<mode, colVars>>

(* Channel::to_range *)
AngToRange ==
    /\ Live
    /\ ang.ty \in AngleTypes
    /\ Become([st |-> "ok",
               i |-> IF ang.ty \in IntTypes THEN DegInt_to_range(ang.i) ELSE 0,
               f |-> IF ang.ty \in IntTypes THEN Zero ELSE Float_to_range(ang.ty, ang.f)],
              Last("to_range", Payload(ang), NoP, FALSE))

(* Add::add, Sub::sub, Mul::mul, Div::div, Rem::rem *)
AngArith ==
    /\ Live
    /\ \E op \in ArithOps : \E b \in Inputs(ang.ty) : \E rev \in BOOLEAN :
         /\ rev => ang.ty = "udeg"
         /\ \E o \in (IF ang.ty = "udeg" THEN UDegOp(op, Payload(ang), b, rev)
                                         ELSE AngleOp(ang.ty, op, Payload(ang), b)) :
              Become(o, Last(op, Payload(ang), b, rev))

(* AddAssign::add_assign, ..., RemAssign::rem_assign *)
AngAssign ==
    /\ Live
    /\ ang.ty \in AngleTypes
    /\ \E op \in AssignOps : \E b \in Inputs(ang.ty) :
         \E o \in AngleOpAssign(ang.ty, op, Payload(ang), b) :
            Become(o, Last(op, Payload(ang), b, FALSE))

(* a write through the public field of Deg<T> / Rad (`a.0 = x`), or        *)
(* through AsMut<f32> of util::Deg (`*a.as_mut() = x`)                      *)
AngWrite ==
    /\ Live
    /\ \E x \in Inputs(ang.ty) :
         Become([st |-> "ok", i |-> x.i, f |-> x.f],
                Last(IF ang.ty = "udeg" THEN "as_mut" ELSE "field", Payload(ang), x, FALSE))

(* util::Deg::inv *)
AngInv ==
    /\ Live
    /\ ang.ty = "udeg"
    /\ Become([st |-> "ok", i |-> 0, f |-> Deg_inv(ang.f)],
              Last("inv", Payload(ang), NoP, FALSE))

AngNext == AngToRange \/ AngArith \/ AngAssign \/ AngWrite \/ AngInv

SpecAngle == AngInit /\ [][AngNext]_vars

(* the canonical interval of the angle's type *)
Period(ty) == IF ty = "rad" THEN RadMax ELSE F360
InRange(a) ==
    IF a.ty \in IntTypes THEN 0 <= a.i /\ a.i < 360
    ELSE Le(Zero, a.f) /\ Lt(a.f, Period(a.ty))
FinitePayload(ty, p) == ty \in IntTypes \/ IsFinite(p.f)

(* C1: every angle value that can be observed, after any sequence of       *)
(* public operations (From, the value-returning and the in-place           *)
(* operators, inv, as_mut, the public field) on finite inputs, has its     *)
(* payload in [0, period).                                                 *)
C1_AlwaysInRange ==
    (mode = "angle" /\ angSt = "ok" /\ FinitePayload(ang.ty, ang)) => InRange(ang)

(* C2: canonicalization (to_range; Deg::new of util) sends every finite    *)
(* input into [0, period), to a value congruent to the input modulo the    *)
(* period (stated exactly for the integer types), and leaves a canonical   *)
(* value unchanged.                                                        *)
C2_Canonical ==
    (/\ mode = "angle"
     /\ angLast.op \in {"to_range", "new"}
     /\ FinitePayload(ang.ty, angLast.pre)) =>
        /\ angSt = "ok"
        /\ InRange(ang)
        /\ ang.ty \in IntTypes =>
             /\ (ang.i - angLast.pre.i) % 360 = 0
             /\ DegInt_to_range(ang.i) = ang.i
        /\ ang.ty \in AngleFloatTypes => Float_to_range(ang.ty, ang.f) = ang.f
        /\ ang.ty = "udeg" => Deg_new(ang.f) = [st |-> "ok", f |-> ang.f]

(* C3: after `a op= b` the value of a is the result of the value-returning *)
(* `a op b`, and so lies in [0, period); stated for operands that are      *)
(* themselves canonical.                                                   *)
C3_AssignCanonical ==
    (/\ mode = "angle" /\ angLast.op \in AssignOps /\ angSt = "ok"
     /\ InRange([ty |-> ang.ty, i |-> angLast.pre.i, f |-> angLast.pre.f])
     /\ InRange([ty |-> ang.ty, i |-> angLast.rhs.i, f |-> angLast.rhs.f])) =>
        /\ \E o \in AngleOp(ang.ty, BaseOp(angLast.op), angLast.pre, angLast.rhs) :
              o.st = "ok" /\ Payload(o) = Payload(ang)
        /\ FinitePayload(ang.ty, ang) => InRange(ang)

(* C10: building a bounded angle from a non-finite float (NaN, an          *)
(* infinity) panics: util Deg through new (From<f32> and the operator      *)
(* results), Deg<f32> and Rad through to_range.                            *)
NonFiniteBuild ==
    \/ angLast.op \in {"to_range", "new"} /\ ~IsFinite(angLast.pre.f)
    \/ /\ ang.ty = "udeg"
       /\ angLast.op \in ArithOps
       /\ ~IsFinite(IF angLast.rev
                    THEN FloatOp(angLast.op, angLast.rhs.f, angLast.pre.f)
                    ELSE FloatOp(angLast.op, angLast.pre.f, angLast.rhs.f))
C10_NonFinitePanics ==
    (mode = "angle" /\ ang.ty \notin IntTypes /\ NonFiniteBuild) => angSt = "panic"

----------------------------------------------------------------------------
(* the colour machine *)

(* From<(f32, f32, f32)> for LinRGBColor, which the operators of           *)
(* color/linrgb.rs call through into(): it is not part of the source; as a *)
(* constructor of normalized linear RGB it clamps like new                 *)
LinRGBColor_from_tuple(t) == LinRGBColor_new_clamped(t[1], t[2], t[3])

(* The operators of color/linrgb.rs: LinRGBColor + LinRGBColor and         *)
(* LinRGBColor - LinRGBColor; LinRGBColor * f32, f32 * LinRGBColor ("rmul"),*)
(* LinRGBColor / f32 and f32 / LinRGBColor ("rdiv") with the scalar k      *)
LinOps == {"add", "sub", "mul", "rmul", "div", "rdiv"}
LinRGBColor_op(op, a, b, k) ==
    LinRGBColor_from_tuple(
        CASE op = "add" -> <<Add(a[1], b[1]), Add(a[2], b[2]), Add(a[3], b[3])>>
          [] op = "sub" -> <<Sub(a[1], b[1]), Sub(a[2], b[2]), Sub(a[3], b[3])>>
          [] op = "mul" -> <<Mul(a[1], k), Mul(a[2], k), Mul(a[3], k)>>
          [] op = "rmul" -> <<Mul(k, a[1]), Mul(k, a[2]), Mul(k, a[3])>>
          [] op = "div" -> <<Div(a[1], k), Div(a[2], k), Div(a[3], k)>>
          [] op = "rdiv" -> <<Div(k, a[1]), Div(k, a[2]), Div(k, a[3])>>)

(* The operators of LinRGB48Color in color/linrgb.rs, channel by channel   *)
(* on u16.  Exact: the three results before they are stored.  A division   *)
(* by zero panics; a result outside u16 panics in a debug build and wraps  *)
(* in a release build.                                                     *)
U16Max == 65535
MulWrap16(a, b) == ((a * (b % 256)) + ((a * (b \div 256)) % 256) * 256) % 65536
MulFits16(a, b) == a = 0 \/ b <= U16Max \div a
U16Fits(op, a, b) ==
    CASE op = "add" -> a + b <= U16Max
      [] op = "sub" -> a >= b
      [] op = "mul" -> MulFits16(a, b)
      [] op = "div" -> b # 0
U16Wrapped(op, a, b) ==
    CASE op = "add" -> (a + b) % 65536
      [] op = "sub" -> (a - b) % 65536
      [] op = "mul" -> MulWrap16(a, b)
      [] op = "div" -> a \div b
Lin48Ops == {"add", "sub", "mul", "rmul", "div", "rdiv"}
(* the operation on u16 and its operands, left and right, for channel i *)
Lin48Base(op) ==
    CASE op \in {"mul", "rmul"} -> "mul" [] op \in {"div", "rdiv"} -> "div" [] OTHER -> op
Lin48Left(op, a, b, k, i) == IF op \in {"rmul", "rdiv"} THEN k ELSE a[i]
Lin48Right(op, a, b, k, i) ==
    IF op \in {"add", "sub"} THEN b[i] ELSE IF op \in {"mul", "div"} THEN k ELSE a[i]
Lin48Fits(op, a, b, k, i) ==
    U16Fits(Lin48Base(op), Lin48Left(op, a, b, k, i), Lin48Right(op, a, b, k, i))
Lin48Channel(op, a, b, k, i) ==
    U16Wrapped(Lin48Base(op), Lin48Left(op, a, b, k, i), Lin48Right(op, a, b, k, i))
LinRGB48Color_op(op, a, b, k) ==
    IF Lin48Base(op) = "div"
    THEN IF \E i \in 1..3 : ~Lin48Fits(op, a, b, k, i) THEN {Panicked}
         ELSE {Col("lin48", <<Lin48Channel(op, a, b, k, 1), Lin48Channel(op, a, b, k, 2),
                             Lin48Channel(op, a, b, k, 3)>>)}
    ELSE {Col("lin48", <<Lin48Channel(op, a, b, k, 1), Lin48Channel(op, a, b, k, 2),
                        Lin48Channel(op, a, b, k, 3)>>)}
         \cup (IF \A i \in 1..3 : Lin48Fits(op, a, b, k, i) THEN {} ELSE {Panicked})

(* inputs of the constructors *)
Half == Lit(5, 10)
Quarter == Lit(25, 100)
Byte3Inputs == {<<128, 255, 55>>, <<255, 255, 255>>, <<10, 0, 200>>}
(* 0.32939804 and 0.66459155: powf(x, 1/2.4) of the first and powf(x, 2.4) *)
(* of (the second + 0.055) / 1.055 lie next to the midpoint of two f32     *)
NearTies == <<<<11052764, -25>>, <<11149996, -24>>, Half>>
Float3Inputs == {<<FromInt(2), Neg(Half), Quarter>>, <<Quarter, Half, One>>, NearTies}
Word3Inputs == {<<0, 32768, 65535>>}
HueInputs == {FromInt(-30), TinyNeg, Lit(7255, 10)}
UnitInputs == {Half, Lit(15, 10), Neg(Half), NaN}
ScalarInputs == {Zero, Half, FromInt(2), FromInt(-1)}
WordScalarInputs == {0, 2, 3}

Ctor(name, args) == [ctor |-> name, args |-> args]

(* The value a constructor call returns.  "HSVColor fields" is a value of   *)
(* HSVColor whose pub fields h, s, v were written directly: no wrap of the *)
(* hue and no check of s and v.                                            *)
Construct(o) ==
    CASE o.ctor = "BaseColor" -> Col("base", o.args)
      [] o.ctor = "SRGB24Color::new" -> Col("srgb24", o.args)
      [] o.ctor = "SRGBColor::new" -> Col("srgb", o.args)
      [] o.ctor = "LinRGBColor::new" -> LinRGBColor_new(o.args[1], o.args[2], o.args[3])
      [] o.ctor = "LinRGB24Color::new" -> Col("lin24", o.args)
      [] o.ctor = "HSVColor::new" -> HSVColor_new(o.args[1], o.args[2], o.args[3])
      [] o.ctor = "HSVColor fields" -> Col("hsv", o.args)
      [] o.ctor = "linrgb::LinRGBColor::new" ->
            LinRGBColor_new_clamped(o.args[1], o.args[2], o.args[3])
      [] o.ctor = "LinRGB48Color::new" -> Col("lin48", o.args)

ColorCtors ==
    {Ctor("BaseColor", n) : n \in BaseColors}
    \cup {Ctor("SRGB24Color::new", c) : c \in Byte3Inputs}
    \cup {Ctor("SRGBColor::new", c) : c \in Float3Inputs}
    \cup {Ctor("LinRGBColor::new", c) : c \in Float3Inputs}
    \cup {Ctor("LinRGB24Color::new", c) : c \in Byte3Inputs}
    \cup {Ctor("HSVColor::new", <<h, s, v>>) : h \in HueInputs, s \in UnitInputs, v \in UnitInputs}
    \cup {Ctor("linrgb::LinRGBColor::new", c) : c \in Float3Inputs}
    \cup {Ctor("LinRGB48Color::new", c) : c \in Word3Inputs}

(* how many methods a behaviour calls on one colour *)
MaxPath == 4

ColInit ==
    /\ mode = "color"
    /\ ang = [ty |-> "none", i |-> 0, f |-> Zero]
    /\ angSt = "ok"
    /\ angLast = Last("none", NoP, NoP, FALSE)
    /\ angN = 0
    /\ colOrig \in ColorCtors
    /\ col = Construct(colOrig)
    /\ colPath = <<>>
    /\ shd = NoShades

(* the representations that implement trait Color in color.rs *)
TraitReps == {"base", "srgb", "srgb24", "lin", "lin24", "hsv"}

(* the method of a representation that returns the receiver itself *)
OwnMethod(rep) ==
    CASE rep = "srgb" -> "srgb"
      [] rep = "srgb24" -> "srgb24"
      [] rep = "lin" -> "lin_rgb"
      [] rep = "lin24" -> "lin_rgb24"
      [] rep = "hsv" -> "hsv"
      [] OTHER -> "none"

(* A call of one of the methods of trait Color on the current value; a     *)
(* call that returns the receiver itself is not a step.                    *)
ColConvert ==
    /\ mode = "color"
    /\ col.rep \in TraitReps
    /\ Len(colPath) < MaxPath
    /\ \E m \in Methods \ {OwnMethod(col.rep)} :
         /\ col' \in Call(m, col)
         /\ colPath' = Append(colPath, m)
    /\ UNCHANGED <<mode, angVars, colOrig, shd>>

(* the methods color/linrgb.rs writes for its two types *)
LinrgbMethods == {"srgb", "lin_rgb", "lin_rgb48"}
LinrgbOwnMethod(rep) == IF rep = "linc" THEN "lin_rgb" ELSE "lin_rgb48"

(* A call of one of the methods of color/linrgb.rs on a LinRGBColor or a   *)
(* LinRGB48Color of that file; a call that returns the receiver itself is  *)
(* not a step.                                                             *)
ColLin48 ==
    /\ mode = "color"
    /\ col.rep \in {"linc", "lin48"}
    /\ Len(colPath) < MaxPath
    /\ \E m \in LinrgbMethods \ {LinrgbOwnMethod(col.rep)} :
         /\ col' \in Call(m, col)
         /\ colPath' = Append(colPath, m)
    /\ UNCHANGED <<mode, angVars, colOrig, shd>>

(* how many operators a behaviour applies to one LinRGBColor *)
MaxArith == 2

(* an operator of color/linrgb.rs on the current LinRGBColor *)
ColArith ==
    /\ mode = "color"
    /\ col.rep = "linc"
    /\ Len(colPath) < MaxArith
    /\ \E op \in LinOps : \E b \in Float3Inputs : \E k \in ScalarInputs :
         /\ col' = LinRGBColor_op(op, col.c, Construct(Ctor("linrgb::LinRGBColor::new", b)).c, k)
         /\ colPath' = Append(colPath, op)
    /\ UNCHANGED <<mode, angVars, colOrig, shd>>

(* an operator of color/linrgb.rs on the current LinRGB48Color *)
ColArith48 ==
    /\ mode = "color"
    /\ col.rep = "lin48"
    /\ Len(colPath) < MaxArith
    /\ \E op \in Lin48Ops : \E b \in Word3Inputs : \E k \in WordScalarInputs :
         /\ col' \in LinRGB48Color_op(op, col.c, b, k)
         /\ colPath' = Append(colPath, op)
    /\ UNCHANGED <<mode, angVars, colOrig, shd>>

ColNext == ColConvert \/ ColLin48 \/ ColArith \/ ColArith48

SpecColor == ColInit /\ [][ColNext]_vars

(* x lies in [0.0, 1.0] *)
InUnit(x) == Le(Zero, x) /\ Le(x, One)

(* a and b differ by a multiple of 360 *)
Congruent360(a, b) == Rem(Sub(a, b), F360) = Zero

(* C4: HSVColor::new(h, s, v) panics exactly when s or v lies outside      *)
(* [0.0, 1.0]; otherwise, for every finite h, it stores s and v unchanged  *)
(* and a hue in [0, 360) congruent to h modulo 360.  (Stated for s and v   *)
(* that are numbers.)                                                      *)
C4_HsvNew ==
    (/\ mode = "color"
     /\ colOrig.ctor = "HSVColor::new"
     /\ colPath = <<>>
     /\ ~IsNaN(colOrig.args[2])
     /\ ~IsNaN(colOrig.args[3])) =>
        IF InUnit(colOrig.args[2]) /\ InUnit(colOrig.args[3])
        THEN /\ col.rep = "hsv"
             /\ col.c[2] = colOrig.args[2]
             /\ col.c[3] = colOrig.args[3]
             /\ Le(Zero, col.c[1])
             /\ Lt(col.c[1], F360)
             /\ Congruent360(col.c[1], colOrig.args[1])
        ELSE col = Panicked

(* C5: for every 8-bit sRGB colour c, the chain c -> normalized sRGB ->    *)
(* HSV -> normalized sRGB -> 8-bit sRGB returns exactly c.                 *)
C5_HsvRoundTrip ==
    (/\ mode = "color"
     /\ colOrig.ctor = "SRGB24Color::new"
     /\ colPath = <<"srgb", "hsv", "srgb", "srgb24">>) =>
        col = Col("srgb24", colOrig.args)

(* C6: for every 8-bit sRGB colour c, dequantizing c, gamma-decoding it to *)
(* linear RGB, gamma-encoding it back and quantizing to 8 bits returns     *)
(* exactly c.                                                              *)
C6_GammaRoundTrip ==
    (/\ mode = "color"
     /\ colOrig.ctor = "SRGB24Color::new"
     /\ colPath = <<"srgb", "lin_rgb", "srgb", "srgb24">>) =>
        col = Col("srgb24", colOrig.args)

(* what a clamping constructor stores for the argument x *)
Clamped(x) == IF Lt(x, Zero) THEN Zero ELSE IF Gt(x, One) THEN One ELSE x

(* C7: every normalized linear RGB value, whether it comes from new, from  *)
(* a conversion or from an arithmetic operator, has its three channels in  *)
(* [0.0, 1.0], and new stores the clamped arguments.                       *)
C7_LinClamped ==
    (mode = "color" /\ col.rep \in {"lin", "linc"}) =>
        /\ \A i \in 1..3 : InUnit(col.c[i])
        /\ (colPath = <<>> /\ \A i \in 1..3 : ~IsNaN(colOrig.args[i])) =>
              \A i \in 1..3 : col.c[i] = Clamped(colOrig.args[i])

----------------------------------------------------------------------------
(* shades() on a colour *)

(* The channel values of the sampled 24-bit colours: ShadeLevels equal     *)
(* steps from 0 to 255; the colours of DarkInputs lie near the cutoffs.    *)
ShadeLevels == 6
ShadeBytes == {(k * 255) \div ShadeLevels : k \in 0..ShadeLevels}
DarkInputs == {<<10, 10, 10>>, <<0, 15, 45>>, <<20, 0, 30>>, <<0, 30, 45>>}
(* hues new() accepts: a NaN hue is stored as it is (NaN % 360.0 is NaN    *)
(* and NaN < 0.0 is false)                                                 *)
ShadeHues == {Zero, FromInt(15), FromInt(330), TinyNeg, NaN}
(* float channels new() of SRGBColor and of LinRGBColor accept, in range   *)
(* and out of it; the last is dark (luminance below zero) with a negative  *)
(* red channel                                                             *)
ShadeFloats == Float3Inputs \cup {<<Neg(Half), Lit(1, 100), Lit(1, 100)>>}
(* hues past the sectors of HSVColor::srgb, written to the pub field h *)
WrittenHues == {FromInt(330), FromInt(420), FromInt(450)}
(* colours of every type that implements Color                             *)
ShadeCtors ==
    {Ctor("BaseColor", n) : n \in BaseColors}
    \cup {Ctor("SRGB24Color::new", <<r, g, b>>) :
             r \in ShadeBytes, g \in ShadeBytes, b \in ShadeBytes}
    \cup {Ctor("SRGB24Color::new", c) : c \in DarkInputs}
    \cup {Ctor("SRGBColor::new", c) : c \in ShadeFloats}
    \cup {Ctor("LinRGBColor::new", c) : c \in ShadeFloats}
    \cup {Ctor("LinRGB24Color::new", c) : c \in DarkInputs \cup {<<255, 128, 0>>}}
    \cup {Ctor("HSVColor::new", <<h, s, v>>) :
             h \in ShadeHues, s \in {Lit(4, 10), One}, v \in {Lit(1, 10), One}}
    \cup {Ctor("HSVColor fields", <<h, Half, Half>>) : h \in WrittenHues}

ShadesInit ==
    /\ mode = "shades"
    /\ ang = [ty |-> "none", i |-> 0, f |-> Zero]
    /\ angSt = "ok"
    /\ angLast = Last("none", NoP, NoP, FALSE)
    /\ angN = 0
    /\ colOrig \in ShadeCtors
    /\ col = Construct(colOrig)
    /\ colPath = <<>>
    /\ shd = NoShades

(* Color::shades on the colour *)
ShadesCall ==
    /\ mode = "shades"
    /\ shd = NoShades
    /\ shd' \in shades(col)
    /\ UNCHANGED <<mode, angVars, colOrig, col, colPath>>

ShadesNext == ShadesCall

SpecShades == ShadesInit /\ [][ShadesNext]_vars

(* the weights of a returned list, added up in f32 in the list's order *)
WeightSum == SumAmounts(shd.list, Len(shd.list))
NonIncreasing ==
    \A i \in 1..(Len(shd.list) - 1) : Ge(shd.list[i][2], shd.list[i + 1][2])
Called == mode = "shades" /\ shd # NoShades

(* C8: for every colour shades() returns a non-empty list of (BaseColor,   *)
(* weight) pairs ordered by non-increasing weight whose weights sum to     *)
(* 1.0.                                                                    *)
C8_SumExactlyOne ==
    Called =>
        /\ shd.st = "ok"
        /\ Len(shd.list) >= 1
        /\ NonIncreasing
        /\ Feq(WeightSum, One)

(* C9: for every colour whose relative luminance is below the near-black   *)
(* cutoff 0.005, shades() returns exactly [(Black, 1.0)], whatever its hue *)
(* and saturation.                                                         *)
C9_NearBlack ==
    (/\ Called
     /\ \A lum \in relative_luminance(col) :
           lum # LumPanicked /\ Lt(lum, BLACK_CUTOFF_LUMINANCE)) =>
        shd = Returned(<<<<"Black", One>>>>)

----------------------------------------------------------------------------
(* SRGB24Color::from_hex_unchecked on a string of bytes *)

(* A string is the sequence of its bytes; the characters used below:       *)
(* ' ' 32, '+' 43, '-' 45, '/' 47, '0' 48 .. '9' 57, ':' 58, '@' 64,       *)
(* 'A' 65 .. 'F' 70, 'G' 71, '`' 96, 'a' 97 .. 'f' 102, 'g' 103, and the   *)
(* two bytes 195 169 of U+00E9.                                            *)

(* <[u8]>::make_ascii_lowercase *)
make_ascii_lowercase(h) ==
    [i \in 1..Len(h) |-> IF 65 <= h[i] /\ h[i] <= 90 THEN h[i] + 32 ELSE h[i]]

(* char::to_digit(10): what from_str_radix would accept with radix 10 *)
to_digit_decimal(c) ==
    IF 48 <= c /\ c <= 57 THEN [st |-> "ok", v |-> c - 48] ELSE [st |-> "err", v |-> 0]

(* char::to_digit(16), as u8::from_str_radix(_, 16) applies it to a byte *)
to_digit(c) ==
    IF 48 <= c /\ c <= 57 THEN [st |-> "ok", v |-> c - 48]
    ELSE IF 97 <= c /\ c <= 102 THEN [st |-> "ok", v |-> c - 87]
    ELSE IF 65 <= c /\ c <= 70 THEN [st |-> "ok", v |-> c - 55]
    ELSE [st |-> "err", v |-> 0]

(* u8::from_str_radix(s, 16) on the two bytes h1 h2: a leading '+' is a    *)
(* sign and is skipped, a leading '-' is no sign of an unsigned type and   *)
(* so an invalid digit; two digits never overflow u8                       *)
u8_from_str_radix(h1, h2) ==
    IF h1 = 43 THEN to_digit(h2)
    ELSE IF to_digit(h1).st = "err" \/ to_digit(h2).st = "err" THEN [st |-> "err", v |-> 0]
    ELSE [st |-> "ok", v |-> 16 * to_digit(h1).v + to_digit(h2).v]

(* the closure f of from_hex_unchecked on the pair k of h (unwrap panics   *)
(* on Err), and from_hex_unchecked: h[0] .. h[5] panic on a string shorter *)
(* than six bytes, bytes after the sixth are not looked at                 *)
HexPair(h, k) == u8_from_str_radix(h[2 * k - 1], h[2 * k])
HexOfLower(h) ==
    IF Len(h) < 6 THEN Panicked
    ELSE IF \E k \in 1..3 : HexPair(h, k).st = "err" THEN Panicked
    ELSE Col("srgb24", <<HexPair(h, 1).v, HexPair(h, 2).v, HexPair(h, 3).v>>)
from_hex_unchecked(hex_str) == HexOfLower(make_ascii_lowercase(hex_str))

(* format!("{:X}", color) of test hex_conversion: the UpperHex             *)
(* implementation is not part of the source; it writes r, g, b as two      *)
(* uppercase hexadecimal digits each                                       *)
UpperHexDigit(d) == IF d < 10 THEN 48 + d ELSE 55 + d
SRGB24Color_fmt_upper_hex(c) ==
    <<UpperHexDigit(c[1] \div 16), UpperHexDigit(c[1] % 16),
      UpperHexDigit(c[2] \div 16), UpperHexDigit(c[2] % 16),
      UpperHexDigit(c[3] \div 16), UpperHexDigit(c[3] % 16)>>

(* inputs: strings of three byte pairs, pairs of hexadecimal digits in     *)
(* both cases and pairs with a character outside [0-9a-fA-F] in either     *)
(* place; and strings of other lengths                                     *)
HexPairs == {<<48, 48>>, <<55, 102>>, <<102, 70>>, <<65, 57>>, <<67, 48>>, <<48, 97>>}
BadPairs ==
    {<<43, 102>>, <<102, 43>>, <<45, 49>>, <<32, 49>>, <<103, 48>>, <<48, 71>>,
     <<47, 48>>, <<58, 48>>, <<64, 48>>, <<96, 48>>, <<195, 169>>}
HexStrings ==
    {p \o q \o r : p \in HexPairs \cup BadPairs, q \in HexPairs \cup BadPairs,
                   r \in HexPairs \cup BadPairs}
    \cup {<<>>, <<48, 48, 48, 48, 48>>, <<49, 50, 51, 52, 53, 54, 55>>,
          <<48, 48, 48, 48, 48, 48, 48, 103>>, <<103, 48, 48, 48, 48>>}

HexInit ==
    /\ mode = "hex"
    /\ ang = [ty |-> "none", i |-> 0, f |-> Zero]
    /\ angSt = "ok"
    /\ angLast = Last("none", NoP, NoP, FALSE)
    /\ angN = 0
    /\ \E s \in HexStrings : colOrig = Ctor("SRGB24Color::from_hex_unchecked", s)
    /\ col = NoCol
    /\ colPath = <<>>
    /\ shd = NoShades

(* SRGB24Color::from_hex_unchecked(hex_str) *)
HexParse ==
    /\ mode = "hex"
    /\ col = NoCol
    /\ col' = from_hex_unchecked(colOrig.args)
    /\ colPath' = <<"from_hex_unchecked">>
    /\ UNCHANGED <<mode, angVars, colOrig, shd>>

(* format!("{:X}", color) *)
HexFormat ==
    /\ mode = "hex"
    /\ col.rep = "srgb24"
    /\ col' = Col("hex", SRGB24Color_fmt_upper_hex(col.c))
    /\ colPath' = Append(colPath, "fmt")
    /\ UNCHANGED <<mode, angVars, colOrig, shd>>

HexNext == HexParse \/ HexFormat

SpecHex == HexInit /\ [][HexNext]_vars

(* the characters [0-9a-fA-F], their values, and a string in upper case *)
IsHexChar(c) == (48 <= c /\ c <= 57) \/ (65 <= c /\ c <= 70) \/ (97 <= c /\ c <= 102)
HexCharValue(c) == IF c <= 57 THEN c - 48 ELSE IF c <= 70 THEN c - 55 ELSE c - 87
AllHex(s) == \A i \in 1..Len(s) : IsHexChar(s[i])
UpperCase(s) == [i \in 1..Len(s) |-> IF 97 <= s[i] /\ s[i] <= 122 THEN s[i] - 32 ELSE s[i]]
Parsed == mode = "hex" /\ colPath # <<>>

(* C11: for every 6-character string s over [0-9a-fA-F],                   *)
(* from_hex_unchecked(s) returns the colour whose r, g, b are the values   *)
(* of the first, second and third pair of hexadecimal digits of s, and     *)
(* formatting that colour as six uppercase hexadecimal digits gives s in   *)
(* upper case.                                                             *)
C11_HexRoundTrip ==
    (Parsed /\ Len(colOrig.args) = 6 /\ AllHex(colOrig.args)) =>
        LET s == colOrig.args
            c == <<16 * HexCharValue(s[1]) + HexCharValue(s[2]),
                   16 * HexCharValue(s[3]) + HexCharValue(s[4]),
                   16 * HexCharValue(s[5]) + HexCharValue(s[6])>>
        IN /\ colPath = <<"from_hex_unchecked">> => col = Col("srgb24", c)
           /\ colPath = <<"from_hex_unchecked", "fmt">> =>
                 col = Col("hex", UpperCase(s)) /\ from_hex_unchecked(col.c) = Col("srgb24", c)

(* C11's case: a string with digits, lowercase and uppercase letters has   *)
(* been parsed and formatted back                                          *)
C11_Witness ==
    /\ Parsed
    /\ colOrig.args = <<55, 102>> \o <<102, 70>> \o <<65, 57>>
    /\ colPath = <<"from_hex_unchecked", "fmt">>
    /\ col.c = <<55, 70, 70, 70, 65, 57>>

(* C12: from_hex_unchecked panics for every valid UTF-8 input that does    *)
(* not consist only of the characters [0-9a-fA-F], wherever the offending  *)
(* character is; it never returns a colour for such an input.              *)
C12_BadHexPanics ==
    (Parsed /\ colPath = <<"from_hex_unchecked">> /\ ~AllHex(colOrig.args)) => col = Panicked

----------------------------------------------------------------------------
(* util::clamp on f32 arguments *)

ClampValues ==
    {FromInt(-1), Neg(Half), Zero, Quarter, Half, One, Lit(15, 10), FromInt(2),
     NaN, PosInf, NegInf}
ClampBounds == {Neg(Half), Zero, Half, One}
ClampArgs ==
    {<<value, min, max>> : value \in ClampValues, min \in ClampBounds, max \in ClampBounds}

ClampInit ==
    /\ mode = "clamp"
    /\ ang = [ty |-> "none", i |-> 0, f |-> Zero]
    /\ angSt = "ok"
    /\ angLast = Last("none", NoP, NoP, FALSE)
    /\ angN = 0
    /\ \E a \in ClampArgs : colOrig = Ctor("clamp", a)
    /\ col = NoCol
    /\ colPath = <<>>
    /\ shd = NoShades

(* clamp(value, min, max) *)
ClampCall ==
    /\ mode = "clamp"
    /\ col = NoCol
    /\ col' = Col("f32", <<clamp(colOrig.args[1], colOrig.args[2], colOrig.args[3])>>)
    /\ colPath' = <<"clamp">>
    /\ UNCHANGED <<mode, angVars, colOrig, shd>>

ClampNext == ClampCall

SpecClamp == ClampInit /\ [][ClampNext]_vars

(* C13: clamp(value, min, max) with min <= max returns a result in         *)
(* [min, max]: value itself when min < value < max, min when value <= min, *)
(* max when value >= max; and the minimum when value cannot be compared    *)
(* (NaN).                                                                  *)
C13_Clamp ==
    (mode = "clamp" /\ colPath = <<"clamp">> /\ Le(colOrig.args[2], colOrig.args[3])) =>
        LET value == colOrig.args[1]
            min == colOrig.args[2]
            max == colOrig.args[3]
            r == col.c[1]
        IN /\ Le(min, r) /\ Le(r, max)
           /\ (Lt(min, value) /\ Lt(value, max)) => r = value
           /\ Le(value, min) => r = min
           /\ Ge(value, max) => r = max
           /\ IsNaN(value) => r = min

----------------------------------------------------------------------------
(* the hue weights of shades() *)

(* the six named hues in the order shades() looks at them *)
NamedHues == <<<<0, "Red">>>> \o COLOR_HUES

(* the circular angular distance between the hue h and a named hue *)
CircularDistance(h, hue) ==
    FMin(FAbs(Sub(h, FromInt(hue))), Sub(F360, FAbs(Sub(h, FromInt(hue)))))

(* the weights the claim gives: 1 - d/45 for every named hue at circular   *)
(* distance d <= 45, in the order of NamedHues                             *)
RECURSIVE LinearHueWeights(_, _)
LinearHueWeights(h, k) ==
    IF k = 0 THEN <<>>
    ELSE LinearHueWeights(h, k - 1)
         \o (IF Le(CircularDistance(h, NamedHues[k][1]), HUE_MARGIN)
             THEN Shade(NamedHues[k][2],
                        Sub(One, Div(CircularDistance(h, NamedHues[k][1]), HUE_MARGIN)))
             ELSE <<>>)

(* C14: in shades(), when saturation exceeds 0.05, each of the six named   *)
(* hues whose circular distance d to the colour's hue is at most 45        *)
(* contributes the pre-normalization weight 1 - d/45, which lies within    *)
(* [0, 1]; this includes Red for hues in [315, 360).                       *)
C14_HueWeights ==
    \A y \in hsv(col) :
        (/\ Called
         /\ y.rep = "hsv"
         /\ Gt(y.c[2], GREYSCALE_SATURATION)
         /\ \E lum \in relative_luminance(col) :
               lum # LumPanicked /\ ~IsNearBlack(lum)) =>
            LET h == y.c[1]
                pushed == RedShade(h) \o HueShades(h, 5)
            IN /\ pushed = LinearHueWeights(h, 6)
               /\ \A i \in 1..Len(pushed) : InUnit(pushed[i][2])

----------------------------------------------------------------------------
(* HSVColor::srgb on the values HSVColor::new returns *)

(* hues in every sector, at sector borders, just below 360, and hues that  *)
(* new wraps (a tiny negative hue is stored as 360.0)                      *)
SectorHues ==
    {Zero, FromInt(30), FromInt(60), FromInt(90), FromInt(150), FromInt(210),
     FromInt(270), FromInt(300), FromInt(330), Lit(35999, 100), TinyNeg, FromInt(-30),
     Lit(7255, 10)}
SectorUnits == {Zero, Lit(3, 100), Lit(1, 10), Lit(41, 100), Half, Lit(7, 10), One}
HsvCtors ==
    {Ctor("HSVColor::new", <<h, s, v>>) : h \in SectorHues, s \in SectorUnits, v \in SectorUnits}

HsvInit ==
    /\ mode = "hsv"
    /\ ang = [ty |-> "none", i |-> 0, f |-> Zero]
    /\ angSt = "ok"
    /\ angLast = Last("none", NoP, NoP, FALSE)
    /\ angN = 0
    /\ colOrig \in HsvCtors
    /\ col = Construct(colOrig)
    /\ colPath = <<>>
    /\ shd = NoShades

(* <HSVColor as Color>::srgb *)
HsvSrgb ==
    /\ mode = "hsv"
    /\ col.rep = "hsv"
    /\ col' = HSVColor_srgb(col.c)
    /\ colPath' = <<"srgb">>
    /\ UNCHANGED <<mode, angVars, colOrig, shd>>

HsvNext == HsvSrgb

SpecHsv == HsvInit /\ [][HsvNext]_vars

(* the sector table of the claim: where the largest (hi), the second (mid) *)
(* and the smallest (lo) component go; sector 6 like sector 5              *)
SectorTable(sector, hi, mid, lo) ==
    CASE sector = 0 -> <<hi, mid, lo>>
      [] sector = 1 -> <<mid, hi, lo>>
      [] sector = 2 -> <<lo, hi, mid>>
      [] sector = 3 -> <<lo, mid, hi>>
      [] sector = 4 -> <<mid, lo, hi>>
      [] sector \in {5, 6} -> <<hi, lo, mid>>
      [] OTHER -> <<>>
Largest(c) == FMax(FMax(c[1], c[2]), c[3])
Smallest(c) == FMin(FMin(c[1], c[2]), c[3])
HsvConverted == mode = "hsv" /\ colPath = <<"srgb">>

(* 2^-24: one unit in the last place of an f32 in [0.5, 1) *)
ValueTolerance == <<Two23, -47>>

(* C15, as the code has it: for every value HSVColor::new returns (hue in  *)
(* [0, 360], s and v in [0, 1]) srgb() does not panic, treats sector 6     *)
(* like sector 5, and returns the sector-table ordering of (C+m, X+m, m)   *)
(* with C = s*v, X = C*(1 - |h/60 mod 2 - 1|), m = v - C; the channels lie *)
(* in [0, 1], the smallest equals v - s*v, and the largest equals v up to  *)
(* the rounding of the f32 sum C + m (within 2^-24).                       *)
C15_HsvSrgb ==
    HsvConverted =>
        LET y == Construct(colOrig).c
            h == Div(y[1], F60)
            c == Mul(y[2], y[3])
            x == Mul(c, Sub(One, FAbs(Sub(Rem(h, FromInt(2)), One))))
            m == Sub(y[3], c)
        IN /\ col # Panicked
           /\ col.c = SectorTable(ToU8(h), Add(c, m), Add(x, m), m)
           /\ ToU8(h) = 6 => col.c = SectorTable(5, Add(c, m), Add(x, m), m)
           /\ \A i \in 1..3 : InUnit(col.c[i])
           /\ Smallest(col.c) = Sub(y[3], Mul(y[2], y[3]))
           /\ Le(FAbs(Sub(Largest(col.c), y[3])), ValueTolerance)

(* C15's case: a value whose stored hue is 360.0, so that the sector is 6, *)
(* has been converted                                                      *)
C15_Witness ==
    /\ HsvConverted
    /\ Construct(colOrig).c[1] = F360
    /\ Gt(Construct(colOrig).c[2], Zero)
    /\ Gt(Construct(colOrig).c[3], Zero)
    /\ col.rep = "srgb"

(* C15, as the claim states it: srgb() does not panic, the channels lie in *)
(* [0, 1], the largest equals v and the smallest equals v - s*v.           *)
C15_LargestIsValue ==
    HsvConverted =>
        /\ col # Panicked
        /\ \A i \in 1..3 : InUnit(col.c[i])
        /\ Smallest(col.c) =
              Sub(Construct(colOrig).c[3], Mul(Construct(colOrig).c[2], Construct(colOrig).c[3]))
        /\ Largest(col.c) = Construct(colOrig).c[3]

----------------------------------------------------------------------------
(* the overridden conversion legs against the route through srgb() *)

(* the methods with a default in trait Color that a representation         *)
(* overrides                                                               *)
Overridden(rep) ==
    CASE rep = "base" -> {"srgb24", "hsv"}
      [] rep = "srgb" -> {"srgb24", "lin_rgb", "hsv"}
      [] rep = "srgb24" -> {"srgb24"}
      [] rep = "lin" -> {"lin_rgb", "lin_rgb24"}
      [] rep = "lin24" -> {"lin_rgb", "lin_rgb24"}
      [] rep = "hsv" -> {"hsv"}
      [] OTHER -> {}

(* C16: every overridden conversion leg agrees with the route through      *)
(* normalized sRGB: for each representation x and each overridden method   *)
(* t, x.srgb().t() equals x.t(); in particular b.srgb().hsv() = b.hsv()    *)
(* and b.srgb().srgb24() = b.srgb24() for every BaseColor b.               *)
C16_HubRoute ==
    (/\ mode = "color"
     /\ Len(colPath) = 2
     /\ colPath[1] = "srgb"
     /\ Construct(colOrig).rep \in TraitReps
     /\ colPath[2] \in Overridden(Construct(colOrig).rep)) =>
        col \in Call(colPath[2], Construct(colOrig))

=============================================================================
